---- MODULE Spec2Model ----
(***************************************************************************)
(* Customer-ledger dashboard (moi-finance-hub).                            *)
(*                                                                         *)
(* Storage: the customers and transactions tables.  DashboardMetrics:      *)
(* fetchMetrics, which reads both tables and publishes the six metrics.    *)
(* CustomersTab: the handlers that create, edit and delete customers and   *)
(* transactions.                                                           *)
(*                                                                         *)
(* Time is counted in seconds (the source counts milliseconds; 30 days in  *)
(* milliseconds does not fit TLC's 32-bit integers).  A timestamp column   *)
(* and the Date built from it are the same number of seconds.              *)
(***************************************************************************)
EXTENDS Integers, FiniteSets, Sequences, TLC

VARIABLES
    now,                 \* the wall clock: new Date() / now()
    dbCustomers,         \* table public.customers
    dbTransactions,      \* table public.transactions
    nextCustomerId,      \* the next customer id gen_random_uuid() hands out
    nextTxId,            \* the next transaction id
    history,             \* what storage has done so far (see NoHistory)
    \* ---- DashboardMetrics component
    metrics,             \* useState<MetricsData | null>(null)
    metricsLoading,      \* useState(true)
    metricsPc,           \* position of fetchMetrics
    mCustomers,          \* fetchMetrics' local `customers`
    mNow,                \* fetchMetrics' local `now`
    metricsToast,        \* fetchMetrics raised its destructive toast in this mount
    prevRun,             \* what the previous mount of the component published
    \* ---- CustomersTab component
    customers,           \* useState<Customer[]>([])
    loading,             \* useState(true)
    selectedCustomer,    \* useState<Customer | null>(null), by id; 0 is null
    transactions,        \* useState<Transaction[]>([])
    createDialogOpen,
    transactionDialogOpen,
    editingTransaction,  \* useState<Transaction | null>(null), by id; 0 is null
    deleteCustomerDialogOpen,
    customerToDelete,    \* by id; 0 is null
    deleteTransactionId, \* 0 is null
    customerFetches,     \* fetchCustomers calls whose query has not returned
    transactionFetches,  \* customers whose handleCustomerClick query has not returned
    currentPage,         \* useState(1)
    filters,             \* useState({id: "", firstName: "", ..., pageNo: ""})
    transactionFormValues, \* the fields of transactionForm (useForm)
    \* ---- TransactionsTab component
    ttTransactions,      \* useState<Transaction[]>([])
    ttLoading,           \* useState(true)
    ttPc                 \* position of fetchTransactions

storageVars == <<dbCustomers, dbTransactions, nextCustomerId, nextTxId,
                 history>>
metricsVars == <<metrics, metricsLoading, metricsPc, mCustomers, mNow,
                 metricsToast, prevRun>>
dialogVars == <<createDialogOpen, transactionDialogOpen, editingTransaction,
                deleteCustomerDialogOpen, customerToDelete, deleteTransactionId>>
pageVars == <<currentPage, filters>>
tabVars == <<customers, loading, selectedCustomer, transactions, dialogVars,
             customerFetches, transactionFetches, pageVars,
             transactionFormValues>>
ttVars == <<ttTransactions, ttLoading, ttPc>>
vars == <<now, storageVars, metricsVars, tabVars, ttVars>>

-----------------------------------------------------------------------------
(* Bounds *)

MaxCustomers == 2        \* customers ever created
MaxRows == 3             \* rows of the transactions table drawn by InitMetrics
MaxTransactions == 2     \* transactions ever created through the tab
MaxFetches == 1          \* fetchCustomers calls in flight at once
MaxListed == 21          \* customers in the list the pagination is studied on

-----------------------------------------------------------------------------
(* Time *)

Day == 24 * 60 * 60
WeekSpan == 7 * 24 * 60 * 60
MonthSpan == 30 * 24 * 60 * 60

\* The instant the older rows are created at, and the instant of the newer.
T0 == 0
T1 == T0 + 35 * Day

\* The instants at which the clock is looked at: 5 days after T1 (40 after
\* T0), 7 days after T1 and one second later, 30 days after T1 and one second
\* later.
Instants == {T1 + 5 * Day,
             T1 + WeekSpan, T1 + WeekSpan + 1,
             T1 + MonthSpan, T1 + MonthSpan + 1}

CreatedDates == {T0, T1}
\* The event dates of the rows drawn by InitMetrics: a row created at T1 with
\* event date T0 is back-dated.
EventDates == {T0}
Amounts == {-200, 0, 100, 500}
CustomerIds == 1..MaxCustomers

-----------------------------------------------------------------------------
(* Rows and nullable query results *)

\* const { data: { user } } = await supabase.auth.getUser(): the id of the
\* user signed in where the components run.  auth.uid() of their requests.
user == 1

\* The users of the application: the signed-in user and another.
Users == {user, user + 1}

\* A nullable text column
NullText == [isNull |-> TRUE, text |-> ""]
Text(s) == [isNull |-> FALSE, text |-> s]

\* values.notes || null
NotesOrNull(s) == IF s = "" THEN NullText ELSE Text(s)

\* A row of public.customers as INSERT leaves it, p being the inserted
\* object: pending_amount DEFAULT 0, created_date and updated_at DEFAULT
\* now().
CustomerRow(id, p, t) ==
    [id |-> id, user_id |-> p.user_id, page_no |-> p.page_no,
     first_name |-> p.first_name, last_name |-> p.last_name,
     village_name |-> p.village_name, notes |-> p.notes,
     pending_amount |-> 0, created_date |-> t, updated_at |-> t]

\* A row of public.transactions as INSERT leaves it, p being the inserted
\* object.
TransactionRow(id, p, t) ==
    [id |-> id, customer_id |-> p.customer_id, user_id |-> p.user_id,
     amount |-> p.amount, event_date |-> p.event_date, notes |-> p.notes,
     created_date |-> t]

\* `data` of a query response: the rows, or null.
Rows(S) == [isNull |-> FALSE, rows |-> S]
NullData == [isNull |-> TRUE, rows |-> {}]

\* What a successful select('*') can hand back for a table holding S: the
\* rows; the client types data as nullable, and an empty result may be null.
SelectAll(S) == {Rows(S)} \cup (IF S = {} THEN {NullData} ELSE {})

-----------------------------------------------------------------------------
(* fetchMetrics: the calculation *)

\* Number(t.amount): the amount column arrives as a JSON number
Number(a) == a

\* Math.abs
Abs(x) == IF x < 0 THEN -x ELSE x

RECURSIVE SumAmount(_)
\* rows.reduce((sum, t) => sum + Number(t.amount), 0)
SumAmount(S) ==
    IF S = {} THEN 0
    ELSE LET r == CHOOSE x \in S : TRUE
         IN Number(r.amount) + SumAmount(S \ {r})

RECURSIVE SumAbsAmount(_)
\* rows.reduce((sum, t) => sum + Math.abs(Number(t.amount)), 0)
SumAbsAmount(S) ==
    IF S = {} THEN 0
    ELSE LET r == CHOOSE x \in S : TRUE
         IN Abs(Number(r.amount)) + SumAbsAmount(S \ {r})

\* new Date(now.getTime() - 7 * 24 * 60 * 60 * 1000), in seconds
OneWeekAgo(t) == t - 7 * 24 * 60 * 60

\* new Date(now.getTime() - 30 * 24 * 60 * 60 * 1000), in seconds
OneMonthAgo(t) == t - 30 * 24 * 60 * 60

\* InLastWeek, were lastWeekAmount filtered by the event date
InLastWeek_eventDate(r, oneWeekAgo) == r.event_date >= oneWeekAgo

\* InLastWeek, were the comparison strict
InLastWeek_strict(r, oneWeekAgo) == r.created_date > oneWeekAgo

\* the filter of lastWeekAmount
InLastWeek(r, oneWeekAgo) == r.created_date >= oneWeekAgo

\* InLastMonth, were lastMonthAmount alone filtered by the event date
InLastMonth_eventDate(r, oneMonthAgo) == r.event_date >= oneMonthAgo

\* the filter of lastMonthAmount
InLastMonth(r, oneMonthAgo) == r.created_date >= oneMonthAgo

\* ActiveInMonth, were the window filter left out
ActiveInMonth_allTime(r, oneMonthAgo) == TRUE

\* ActiveInMonth, were a transaction of amount 0 not counted as present
ActiveInMonth_nonZero(r, oneMonthAgo) ==
    r.amount # 0 /\ r.created_date >= oneMonthAgo

\* the filter of activeCustomerIds
ActiveInMonth(r, oneMonthAgo) == r.created_date >= oneMonthAgo

\* transactions?.filter(...).reduce(...) || 0
LastWeekAmount(tdata, t) ==
    IF tdata.isNull THEN 0
    ELSE SumAmount({r \in tdata.rows : InLastWeek(r, OneWeekAgo(t))})

LastMonthAmount(tdata, t) ==
    IF tdata.isNull THEN 0
    ELSE SumAmount({r \in tdata.rows : InLastMonth(r, OneMonthAgo(t))})

\* customers?.length || 0
TotalCustomers(cdata) ==
    IF cdata.isNull THEN 0 ELSE Cardinality(cdata.rows)

\* ActiveCustomerIds, were the transactions counted instead of their customers
ActiveCustomerIds_perTransaction(tdata, t) ==
    IF tdata.isNull THEN {}
    ELSE {r.id :
            r \in {x \in tdata.rows : ActiveInMonth(x, OneMonthAgo(t))}}

\* new Set(transactions?.filter(...).map(t => t.customer_id))
ActiveCustomerIds(tdata, t) ==
    IF tdata.isNull THEN {}
    ELSE {r.customer_id :
            r \in {x \in tdata.rows : ActiveInMonth(x, OneMonthAgo(t))}}

\* activeCustomerIds.size
ActiveCustomers(tdata, t) == Cardinality(ActiveCustomerIds(tdata, t))

\* CreditAmount, were it summed over the last 30 days only
CreditAmount_lastMonth(tdata) ==
    IF tdata.isNull THEN 0
    ELSE SumAmount({r \in tdata.rows :
                      Number(r.amount) > 0 /\ InLastMonth(r, OneMonthAgo(now))})

\* CreditAmount, were the filter on the sign left out
CreditAmount_unfiltered(tdata) ==
    IF tdata.isNull THEN 0 ELSE SumAmount(tdata.rows)

\* transactions?.filter(t => Number(t.amount) > 0).reduce(...) || 0
CreditAmount(tdata) ==
    IF tdata.isNull THEN 0
    ELSE SumAmount({r \in tdata.rows : Number(r.amount) > 0})

\* DebitAmount, were Math.abs left out
DebitAmount_signed(tdata) ==
    IF tdata.isNull THEN 0
    ELSE SumAmount({r \in tdata.rows : Number(r.amount) < 0})

\* DebitAmount, were it summed over the last 30 days only
DebitAmount_lastMonth(tdata) ==
    IF tdata.isNull THEN 0
    ELSE SumAbsAmount({r \in tdata.rows :
                         Number(r.amount) < 0 /\ InLastMonth(r, OneMonthAgo(now))})

\* transactions?.filter(t => Number(t.amount) < 0).reduce(...) || 0
DebitAmount(tdata) ==
    IF tdata.isNull THEN 0
    ELSE SumAbsAmount({r \in tdata.rows : Number(r.amount) < 0})

\* The record handed to setMetrics
MetricsRecord(cdata, tdata, t) ==
    [def |-> TRUE,
     lastWeekAmount |-> LastWeekAmount(tdata, t),
     lastMonthAmount |-> LastMonthAmount(tdata, t),
     totalCustomers |-> TotalCustomers(cdata),
     activeCustomers |-> ActiveCustomers(tdata, t),
     creditAmount |-> CreditAmount(tdata),
     debitAmount |-> DebitAmount(tdata)]

\* Calculate, were the optional chaining (?.) left out: a null result throws
Calculate_nullThrows(cdata, tdata, t) ==
    [threw |-> cdata.isNull \/ tdata.isNull,
     value |-> MetricsRecord(cdata, tdata, t)]

\* The body of the try block after both reads: the record it hands to
\* setMetrics, or an exception for the catch block.  No statement of it
\* throws.
Calculate(cdata, tdata, t) ==
    [threw |-> FALSE, value |-> MetricsRecord(cdata, tdata, t)]

\* metrics === null
NoMetrics ==
    [def |-> FALSE, lastWeekAmount |-> 0, lastMonthAmount |-> 0,
     totalCustomers |-> 0, activeCustomers |-> 0, creditAmount |-> 0,
     debitAmount |-> 0]

\* nothing published by a previous mount
NoRun == [def |-> FALSE, at |-> 0, metrics |-> NoMetrics]

-----------------------------------------------------------------------------
(* Storage: policies, triggers and the statements the components send *)

\* The row-level security policies of public.customers, uid being auth.uid()
\* of the request.

\* CanSelectCustomer, were the SELECT policy USING (true)
CanSelectCustomer_all(uid, row) == TRUE

\* "Users can view their own customers" FOR SELECT USING
CanSelectCustomer(uid, row) == uid = row.user_id

\* CanInsertCustomer, were the INSERT policy WITH CHECK (true)
CanInsertCustomer_all(uid, row) == TRUE

\* "Users can create their own customers" FOR INSERT WITH CHECK
CanInsertCustomer(uid, row) == uid = row.user_id

\* "Users can update their own customers" FOR UPDATE USING; with no WITH
\* CHECK of its own the expression also checks the new row.
CanUpdateCustomer(uid, row) == uid = row.user_id

\* "Users can delete their own customers" FOR DELETE USING
CanDeleteCustomer(uid, row) == uid = row.user_id

\* from('customers').select('*') of a request by uid
SelectCustomers(uid) == {row \in dbCustomers : CanSelectCustomer(uid, row)}

\* trigger update_customers_updated_at BEFORE UPDATE:
\* NEW.updated_at = now(); RETURN NEW
update_updated_at_column(new) == [new EXCEPT !.updated_at = now]

CustomerExists(c) == \E row \in dbCustomers : row.id = c

\* from('transactions').select('*').eq('customer_id', c)
TransactionsOf(c) == {r \in dbTransactions : r.customer_id = c}

\* DeleteCustomerCascade, were the transactions left behind
DeleteCustomerCascade_noCascade(c) ==
    /\ dbCustomers' = {row \in dbCustomers : row.id # c}
    /\ UNCHANGED dbTransactions

\* The customer row c is deleted: its transactions go with it.
DeleteCustomerCascade(c) ==
    /\ dbCustomers' = {row \in dbCustomers : row.id # c}
    /\ dbTransactions' = {r \in dbTransactions : r.customer_id # c}

\* from('customers').delete().eq('id', c) of a request by uid: the row goes
\* if the DELETE policy lets uid see it; deleting no row is no error.
DeleteCustomer(uid, c) ==
    IF \E row \in dbCustomers : row.id = c /\ CanDeleteCustomer(uid, row)
    THEN DeleteCustomerCascade(c)
    ELSE UNCHANGED <<dbCustomers, dbTransactions>>

\* Nothing has happened yet.  cascaded: handleDeleteCustomer has deleted a
\* customer that had transactions; orphanInsert: an insert of a transaction
\* was refused because its customer was gone; refused: a form was submitted
\* and turned down because of its number field.
NoHistory == [cascaded |-> FALSE, orphanInsert |-> FALSE, refused |-> FALSE]

\* A text has at least one character: z.string().min(1)
min1(text) == Len(text) >= 1

\* The texts that spell a floating-point number, among those typed.
IsNumber(text) ==
    text \in {"500", "100", "0", "-200", "1", "7", "-3", "2.5", "12.345"}

\* numberValue, were the field an <Input type="text">
numberValue_text(text) == text

\* <Input type="number">: the value the field holds for the text typed into
\* it: the text when it spells a number, the empty text when it does not.
numberValue(text) == IF IsNumber(text) THEN text ELSE ""

\* <Input type="number" step=...>: the value is off the field's step, and the
\* browser does not submit the form.  The page number has the default step
\* 1, the amount step="0.01".
stepMismatch(text, step) ==
    CASE step = "1" -> text \in {"2.5", "12.345"}
      [] step = "0.01" -> text \in {"12.345"}

\* customerSchema; the texts typed are shorter than max(100)
customerSchema(values) ==
    /\ min1(values.pageNo)
    /\ min1(values.firstName)
    /\ min1(values.lastName)
    /\ min1(values.villageName)

\* transactionSchema
transactionSchema(amount, eventDate) ==
    /\ min1(amount)
    /\ min1(eventDate)

\* The date column storage makes of the text of the date input
toDate(text) ==
    CASE text = "1970-01-01" -> T0
      [] text = "1970-02-05" -> T1

\* parseInt on the texts typed into the page number field: the integer a
\* leading sign and digits spell, NaN when there is none.
parseInt(text) ==
    CASE text = "1" -> [isNaN |-> FALSE, n |-> 1]
      [] text = "7" -> [isNaN |-> FALSE, n |-> 7]
      [] text = "0" -> [isNaN |-> FALSE, n |-> 0]
      [] text = "-3" -> [isNaN |-> FALSE, n |-> -3]
      [] text = "2.5" -> [isNaN |-> FALSE, n |-> 2]
      [] text = "abc" -> [isNaN |-> TRUE, n |-> 0]

\* parseFloat on the texts typed into the amount field: the number the
\* longest numeric prefix spells.
parseFloat(text) ==
    CASE text = "500" -> 500
      [] text = "100" -> 100
      [] text = "0" -> 0
      [] text = "-200" -> -200
      [] text = "12abc" -> 12

\* transaction.amount.toString(): the text of a stored amount
amountText(n) ==
    CASE n = 500 -> "500"
      [] n = 100 -> "100"
      [] n = 0 -> "0"
      [] n = -200 -> "-200"
      [] n = 12 -> "12"

\* transaction.event_date.split('T')[0]: the text of a stored date
dateText(t) == IF t = T0 THEN "1970-01-01" ELSE "1970-02-05"

\* The object onSubmit inserts into customers
CustomerInsert(values) ==
    [user_id |-> user,
     page_no |-> parseInt(values.pageNo).n,
     first_name |-> values.firstName,
     last_name |-> values.lastName,
     village_name |-> values.villageName,
     notes |-> NotesOrNull(values.notes)]

\* The object onTransactionSubmit inserts into transactions
TransactionInsert(c, amount, eventDate, notes) ==
    [customer_id |-> c,
     user_id |-> user,
     amount |-> parseFloat(amount),
     event_date |-> toDate(eventDate),
     notes |-> NotesOrNull(notes)]

\* TransactionUpdate, were the row stamped anew
TransactionUpdate_restamped(r, amount, eventDate, notes) ==
    [r EXCEPT !.amount = parseFloat(amount),
              !.event_date = toDate(eventDate),
              !.notes = NotesOrNull(notes),
              !.created_date = now]

\* The row after onTransactionSubmit's update({amount, event_date, notes})
TransactionUpdate(r, amount, eventDate, notes) ==
    [r EXCEPT !.amount = parseFloat(amount),
              !.event_date = toDate(eventDate),
              !.notes = NotesOrNull(notes)]

-----------------------------------------------------------------------------
(* The clock *)

\* Time passes: the clock moves to a later instant.
TickTo(instants) ==
    /\ \E t \in instants : t > now /\ now' = t
    /\ UNCHANGED <<storageVars, metricsVars, tabVars, ttVars>>

Tick == TickTo(Instants)

-----------------------------------------------------------------------------
(* DashboardMetrics *)

\* fetchMetrics is called by the mount effect: setLoading(true), and the
\* customers query is sent.
FetchMetrics ==
    /\ metricsPc = "mounted"
    /\ metricsLoading' = TRUE
    /\ metricsPc' = "customers"
    /\ UNCHANGED <<now, storageVars, tabVars, metrics, mCustomers, mNow,
                   metricsToast, prevRun, ttVars>>

\* MetricsCatch, were the catch block to publish what the reads that did
\* return allow to compute
MetricsCatch_partial ==
    /\ metricsToast' = TRUE
    /\ metricsLoading' = FALSE
    /\ metricsPc' = "done"
    /\ metrics' = MetricsRecord(mCustomers, NullData, now)
    /\ UNCHANGED <<mNow, prevRun>>

\* catch { toast(...) } finally { setLoading(false) }
MetricsCatch ==
    /\ metricsToast' = TRUE
    /\ metricsLoading' = FALSE
    /\ metricsPc' = "done"
    /\ UNCHANGED <<metrics, mNow, prevRun>>

\* The customers query returns data; the transactions query is sent.
CustomersRead ==
    /\ metricsPc = "customers"
    /\ \E data \in SelectAll(SelectCustomers(user)) : mCustomers' = data
    /\ metricsPc' = "transactions"
    /\ UNCHANGED <<now, storageVars, tabVars, metrics, metricsLoading, mNow,
                   metricsToast, prevRun, ttVars>>

\* The customers query returns an error: throw customersError.
CustomersReadError ==
    /\ metricsPc = "customers"
    /\ MetricsCatch
    /\ UNCHANGED <<now, storageVars, tabVars, mCustomers, ttVars>>

\* The transactions query returns data: the metrics are calculated from the
\* two results and the clock, and published.
TransactionsRead ==
    /\ metricsPc = "transactions"
    /\ \E data \in SelectAll(dbTransactions) :
         LET r == Calculate(mCustomers, data, now)
         IN IF r.threw
            THEN MetricsCatch
            ELSE /\ metrics' = r.value
                 /\ mNow' = now
                 /\ metricsLoading' = FALSE
                 /\ metricsPc' = "done"
                 /\ UNCHANGED <<metricsToast, prevRun>>
    /\ UNCHANGED <<now, storageVars, tabVars, mCustomers, ttVars>>

\* The transactions query returns an error: throw transactionsError.
TransactionsReadError ==
    /\ metricsPc = "transactions"
    /\ MetricsCatch
    /\ UNCHANGED <<now, storageVars, tabVars, mCustomers, ttVars>>

\* The component is unmounted and mounted again: fresh state, and the effect
\* will call fetchMetrics.  prevRun remembers what the old mount showed.
Remount ==
    /\ metricsPc = "done"
    /\ prevRun' = IF metrics.def
                  THEN [def |-> TRUE, at |-> mNow, metrics |-> metrics]
                  ELSE prevRun
    /\ metrics' = NoMetrics
    /\ metricsLoading' = TRUE
    /\ metricsPc' = "mounted"
    /\ mCustomers' = NullData
    /\ mNow' = 0
    /\ metricsToast' = FALSE
    /\ UNCHANGED <<now, storageVars, tabVars, ttVars>>

MetricsNext ==
    \/ FetchMetrics
    \/ CustomersRead
    \/ CustomersReadError
    \/ TransactionsRead
    \/ TransactionsReadError
    \/ Remount

InitMetricsComponent ==
    /\ metrics = NoMetrics
    /\ metricsLoading = TRUE
    /\ metricsPc = "mounted"
    /\ mCustomers = NullData
    /\ mNow = 0
    /\ metricsToast = FALSE
    /\ prevRun = NoRun

-----------------------------------------------------------------------------
(* CustomersTab *)

\* useState({id: "", firstName: "", lastName: "", villageName: "", pageNo: ""})
NoFilters ==
    [id |-> "", firstName |-> "", lastName |-> "", villageName |-> "",
     pageNo |-> ""]

\* defaultValues of transactionForm
DefaultTransactionValues == [amount |-> "", eventDate |-> "", notes |-> ""]

\* The state after the mount effect has called fetchCustomers: its query is
\* in flight.
InitCustomersTab ==
    /\ customers = {}
    /\ loading = TRUE
    /\ selectedCustomer = 0
    /\ transactions = {}
    /\ createDialogOpen = FALSE
    /\ transactionDialogOpen = FALSE
    /\ editingTransaction = 0
    /\ deleteCustomerDialogOpen = FALSE
    /\ customerToDelete = 0
    /\ deleteTransactionId = 0
    /\ customerFetches = 1
    /\ transactionFetches = {}
    /\ currentPage = 1
    /\ filters = NoFilters
    /\ transactionFormValues = DefaultTransactionValues

\* if (loading) return <skeleton>: the table and the dialogs are rendered
\* only when loading is false.
Rendered == ~loading

\* The dialogs are modal: what lies under an open dialog takes no clicks.
\* The page takes clicks when no dialog is open.
PageOnTop ==
    /\ Rendered
    /\ selectedCustomer = 0
    /\ ~createDialogOpen
    /\ ~transactionDialogOpen
    /\ ~deleteCustomerDialogOpen
    /\ deleteTransactionId = 0

\* The transaction-history dialog is the topmost dialog.
HistoryOnTop ==
    /\ Rendered
    /\ selectedCustomer # 0
    /\ ~transactionDialogOpen
    /\ deleteTransactionId = 0

itemsPerPage == 10

RECURSIVE CustomerList(_)
\* .order("created_date", { ascending: false }): the rows as a list, latest
\* first; rows of one instant are taken in the order of their ids.
CustomerList(S) ==
    IF S = {} THEN <<>>
    ELSE LET first == CHOOSE row \in S :
                        \A other \in S :
                           \/ row.created_date > other.created_date
                           \/ /\ row.created_date = other.created_date
                              /\ row.id <= other.id
         IN <<first>> \o CustomerList(S \ {first})

\* String.prototype.toLowerCase on the names and the filter texts typed.
toLowerCase(text) ==
    CASE text = "A" -> "a"
      [] text = "B" -> "b"
      [] text = "V" -> "v"
      [] OTHER -> text

\* String.prototype.includes on the lower-cased names and filter texts: the
\* names are single letters, so a name includes the empty text and itself.
includes(text, part) == part = "" \/ part = text

\* Number.prototype.toString for a page number below 100, as its digits.
toString(n) == IF n < 10 THEN <<n>> ELSE <<n \div 10, n % 10>>

\* The digits of the text typed into the page number filter.
digits(text) ==
    CASE text = "" -> <<>>
      [] text = "1" -> <<1>>
      [] text = "2" -> <<2>>
      [] text = "7" -> <<7>>
      [] text = "12" -> <<1, 2>>

\* includes on digits: part is a run of consecutive digits of ds.
includesDigits(ds, part) ==
    \E i \in 0..(Len(ds) - Len(part)) :
       \A j \in 1..Len(part) : ds[i + j] = part[j]

\* The predicate of customers.filter(...).  Ids are not typed into the id
\* filter: every id includes its empty text.
MatchesFilters(customer) ==
    /\ filters.id = ""
    /\ includes(toLowerCase(customer.first_name), toLowerCase(filters.firstName))
    /\ includes(toLowerCase(customer.last_name), toLowerCase(filters.lastName))
    /\ includes(toLowerCase(customer.village_name),
                toLowerCase(filters.villageName))
    /\ (filters.pageNo = ""
         \/ includesDigits(toString(customer.page_no), digits(filters.pageNo)))

filteredCustomers == SelectSeq(CustomerList(customers), MatchesFilters)

\* Math.ceil(filteredCustomers.length / itemsPerPage)
totalPages == (Len(filteredCustomers) + itemsPerPage - 1) \div itemsPerPage

\* (currentPage - 1) * itemsPerPage
startIndex(page) == (page - 1) * itemsPerPage

\* slice, were its end index inclusive
slice_inclusive(list, start, end) ==
    LET from == IF start < 0 THEN (IF Len(list) + start < 0 THEN 0
                                   ELSE Len(list) + start)
                ELSE IF start > Len(list) THEN Len(list) ELSE start
        to == IF end < 0 THEN (IF Len(list) + end < 0 THEN 0
                               ELSE Len(list) + end)
              ELSE IF end > Len(list) THEN Len(list) ELSE end
    IN  SubSeq(list, from + 1, IF to + 1 > Len(list) THEN Len(list) ELSE to + 1)

\* Array.prototype.slice(start, end): a negative index counts from the end,
\* an index beyond the list is the end of the list; the elements from
\* position start up to, not including, position end (positions from 0).
slice(list, start, end) ==
    LET from == IF start < 0 THEN (IF Len(list) + start < 0 THEN 0
                                   ELSE Len(list) + start)
                ELSE IF start > Len(list) THEN Len(list) ELSE start
        to == IF end < 0 THEN (IF Len(list) + end < 0 THEN 0
                               ELSE Len(list) + end)
              ELSE IF end > Len(list) THEN Len(list) ELSE end
    IN  SubSeq(list, from + 1, to)

\* The rows of page `page` of the filtered list.
pageOf(page) ==
    slice(filteredCustomers, startIndex(page), startIndex(page) + itemsPerPage)

\* filteredCustomers.slice(startIndex, startIndex + itemsPerPage)
paginatedCustomers == pageOf(currentPage)

\* The table has a row for customer c.
Displayed(c) ==
    \E i \in 1..Len(paginatedCustomers) : paginatedCustomers[i].id = c

\* fetchCustomers(), up to its await: setLoading(true) and the query is sent.
\* These are the primed variables of every handler that ends with it.
CallFetchCustomers ==
    /\ customerFetches < MaxFetches
    /\ loading' = TRUE
    /\ customerFetches' = customerFetches + 1

\* The customers query of fetchCustomers returns data: setCustomers, and
\* finally setLoading(false).
CustomersFetched ==
    /\ customerFetches > 0
    /\ customerFetches' = customerFetches - 1
    /\ customers' = SelectCustomers(user)
    /\ loading' = FALSE
    /\ UNCHANGED <<now, storageVars, metricsVars, selectedCustomer,
                   transactions, dialogVars, transactionFetches, pageVars,
                   transactionFormValues, ttVars>>

\* CustomersFetchError, were setLoading(false) the last statement of the try
\* block instead of the finally block
CustomersFetchError_noFinally ==
    /\ customerFetches > 0
    /\ customerFetches' = customerFetches - 1
    /\ UNCHANGED <<now, storageVars, metricsVars, customers, loading,
                   selectedCustomer, transactions, dialogVars,
                   transactionFetches, pageVars, transactionFormValues,
                   ttVars>>

\* The customers query of fetchCustomers returns an error: toast, and finally
\* setLoading(false).
CustomersFetchError ==
    /\ customerFetches > 0
    /\ customerFetches' = customerFetches - 1
    /\ loading' = FALSE
    /\ UNCHANGED <<now, storageVars, metricsVars, customers, selectedCustomer,
                   transactions, dialogVars, transactionFetches, pageVars,
                   transactionFormValues, ttVars>>

\* handleCustomerClick(customer), up to its await: setSelectedCustomer and
\* the transactions query is sent.
CallHandleCustomerClick(c) ==
    /\ selectedCustomer' = c
    /\ transactionFetches' = transactionFetches \cup {c}

\* A cell of a customer's row is clicked.
ClickCustomer(c) ==
    /\ PageOnTop
    /\ Displayed(c)
    /\ CallHandleCustomerClick(c)
    /\ UNCHANGED <<now, storageVars, metricsVars, customers, loading,
                   transactions, dialogVars, customerFetches, pageVars,
                   transactionFormValues, ttVars>>

\* The transactions query of handleCustomerClick(c) returns data:
\* setTransactions(data || []).
TransactionsFetched(c) ==
    /\ c \in transactionFetches
    /\ transactionFetches' = transactionFetches \ {c}
    /\ transactions' = TransactionsOf(c)
    /\ UNCHANGED <<now, storageVars, metricsVars, customers, loading,
                   selectedCustomer, dialogVars, customerFetches, pageVars,
                   transactionFormValues, ttVars>>

\* The transactions query of handleCustomerClick(c) returns an error: toast
\* and return.
TransactionsFetchError(c) ==
    /\ c \in transactionFetches
    /\ transactionFetches' = transactionFetches \ {c}
    /\ UNCHANGED <<now, storageVars, metricsVars, customers, loading,
                   selectedCustomer, transactions, dialogVars, customerFetches,
                   pageVars, transactionFormValues, ttVars>>

\* The history dialog is dismissed: onOpenChange sets selectedCustomer null.
CloseHistory ==
    /\ HistoryOnTop
    /\ selectedCustomer' = 0
    /\ UNCHANGED <<now, storageVars, metricsVars, customers, loading,
                   transactions, dialogVars, customerFetches,
                   transactionFetches, pageVars, transactionFormValues,
                   ttVars>>

\* The Create Customer button.
OpenCreateDialog ==
    /\ PageOnTop
    /\ createDialogOpen' = TRUE
    /\ UNCHANGED <<now, storageVars, metricsVars, customers, loading,
                   selectedCustomer, transactions, transactionDialogOpen,
                   editingTransaction, deleteCustomerDialogOpen,
                   customerToDelete, deleteTransactionId, customerFetches,
                   transactionFetches, pageVars, transactionFormValues,
                   ttVars>>

\* The create dialog is dismissed or cancelled.
CloseCreateDialog ==
    /\ Rendered /\ createDialogOpen
    /\ createDialogOpen' = FALSE
    /\ UNCHANGED <<now, storageVars, metricsVars, customers, loading,
                   selectedCustomer, transactions, transactionDialogOpen,
                   editingTransaction, deleteCustomerDialogOpen,
                   customerToDelete, deleteTransactionId, customerFetches,
                   transactionFetches, pageVars, transactionFormValues,
                   ttVars>>

\* onSubmit: the create form passes customerSchema and is submitted.  ok: a
\* user is signed in and the request reaches storage.  Storage refuses the
\* row when page_no is null (NOT NULL; NaN travels as null) or the INSERT
\* policy fails.  When the insert does not succeed the catch block raises a
\* toast and nothing changes.
OnSubmit(values, ok) ==
    /\ Rendered /\ createDialogOpen
    /\ customerSchema(values)
    /\ IF /\ ok
          /\ ~parseInt(values.pageNo).isNaN
          /\ CanInsertCustomer(user, CustomerInsert(values))
       THEN /\ nextCustomerId <= MaxCustomers
            /\ dbCustomers' = dbCustomers \cup
                 {CustomerRow(nextCustomerId, CustomerInsert(values), now)}
            /\ nextCustomerId' = nextCustomerId + 1
            /\ createDialogOpen' = FALSE
            /\ CallFetchCustomers
            /\ UNCHANGED <<dbTransactions, nextTxId, history>>
       ELSE UNCHANGED <<storageVars, createDialogOpen, loading,
                        customerFetches>>
    /\ UNCHANGED <<now, metricsVars, customers, selectedCustomer, transactions,
                   transactionDialogOpen, editingTransaction,
                   deleteCustomerDialogOpen, customerToDelete,
                   deleteTransactionId, transactionFetches, pageVars,
                   transactionFormValues, ttVars>>

\* The Delete button of a customer's row.
ClickDeleteCustomer(c) ==
    /\ PageOnTop
    /\ Displayed(c)
    /\ customerToDelete' = c
    /\ deleteCustomerDialogOpen' = TRUE
    /\ UNCHANGED <<now, storageVars, metricsVars, customers, loading,
                   selectedCustomer, transactions, createDialogOpen,
                   transactionDialogOpen, editingTransaction,
                   deleteTransactionId, customerFetches, transactionFetches,
                   pageVars, transactionFormValues, ttVars>>

\* The delete-customer alert is cancelled or dismissed:
\* onOpenChange = setDeleteCustomerDialogOpen.
CloseDeleteCustomerDialog ==
    /\ Rendered /\ deleteCustomerDialogOpen
    /\ deleteCustomerDialogOpen' = FALSE
    /\ UNCHANGED <<now, storageVars, metricsVars, customers, loading,
                   selectedCustomer, transactions, createDialogOpen,
                   transactionDialogOpen, editingTransaction, customerToDelete,
                   deleteTransactionId, customerFetches, transactionFetches,
                   pageVars, transactionFormValues, ttVars>>

\* handleDeleteCustomer: the alert's Delete action.  ok: the delete succeeds.
HandleDeleteCustomer(ok) ==
    /\ Rendered /\ deleteCustomerDialogOpen
    /\ customerToDelete # 0
    /\ IF ok
       THEN /\ DeleteCustomer(user, customerToDelete)
            /\ history' =
                 IF /\ CustomerExists(customerToDelete)
                    /\ TransactionsOf(customerToDelete) # {}
                 THEN [history EXCEPT !.cascaded = TRUE]
                 ELSE history
            /\ deleteCustomerDialogOpen' = FALSE
            /\ customerToDelete' = 0
            /\ CallFetchCustomers
       ELSE UNCHANGED <<dbCustomers, dbTransactions, history,
                        deleteCustomerDialogOpen, customerToDelete, loading,
                        customerFetches>>
    /\ UNCHANGED <<now, nextCustomerId, nextTxId, metricsVars, customers,
                   selectedCustomer, transactions, createDialogOpen,
                   transactionDialogOpen, editingTransaction,
                   deleteTransactionId, transactionFetches, pageVars,
                   transactionFormValues, ttVars>>

\* The Add Transaction button of a customer's row.
ClickAddTransaction(c) ==
    /\ PageOnTop
    /\ Displayed(c)
    /\ selectedCustomer' = c
    /\ transactionDialogOpen' = TRUE
    /\ UNCHANGED <<now, storageVars, metricsVars, customers, loading,
                   transactions, createDialogOpen, editingTransaction,
                   deleteCustomerDialogOpen, customerToDelete,
                   deleteTransactionId, customerFetches, transactionFetches,
                   pageVars, transactionFormValues, ttVars>>

\* The Edit button of a transaction in the history dialog.
ClickEditTransaction(id) ==
    /\ HistoryOnTop
    /\ \E r \in transactions : r.id = id
    /\ editingTransaction' = id
    /\ \E r \in transactions :
         /\ r.id = id
         /\ transactionFormValues' =
              [amount |-> amountText(r.amount),
               eventDate |-> dateText(r.event_date),
               notes |-> IF r.notes.isNull THEN "" ELSE r.notes.text]
    /\ transactionDialogOpen' = TRUE
    /\ UNCHANGED <<now, storageVars, metricsVars, customers, loading,
                   selectedCustomer, transactions, createDialogOpen,
                   deleteCustomerDialogOpen, customerToDelete,
                   deleteTransactionId, customerFetches, transactionFetches,
                   pageVars, ttVars>>

\* CloseTransactionDialog, were editingTransaction left as it is
CloseTransactionDialog_keepsEditing ==
    /\ Rendered /\ transactionDialogOpen
    /\ transactionDialogOpen' = FALSE
    /\ transactionFormValues' = DefaultTransactionValues
    /\ UNCHANGED <<now, storageVars, metricsVars, customers, loading,
                   selectedCustomer, transactions, createDialogOpen,
                   editingTransaction, deleteCustomerDialogOpen,
                   customerToDelete, deleteTransactionId, customerFetches,
                   transactionFetches, pageVars, ttVars>>

\* The transaction dialog is dismissed or cancelled:
\* setTransactionDialogOpen(false), setEditingTransaction(null),
\* transactionForm.reset().
CloseTransactionDialog ==
    /\ Rendered /\ transactionDialogOpen
    /\ transactionDialogOpen' = FALSE
    /\ editingTransaction' = 0
    /\ transactionFormValues' = DefaultTransactionValues
    /\ UNCHANGED <<now, storageVars, metricsVars, customers, loading,
                   selectedCustomer, transactions, createDialogOpen,
                   deleteCustomerDialogOpen, customerToDelete,
                   deleteTransactionId, customerFetches, transactionFetches,
                   pageVars, ttVars>>

\* TransactionSubmitReturns, were the dialog closed and the form reset on the
\* error path as well
TransactionSubmitReturns_closes(values) ==
    /\ transactionFormValues' = DefaultTransactionValues
    /\ transactionDialogOpen' = FALSE
    /\ editingTransaction' = 0
    /\ UNCHANGED <<selectedCustomer, transactionFetches>>

\* onTransactionSubmit after a statement that did not succeed: toast and
\* return.  The dialog, editingTransaction and the list are left alone, and
\* the form keeps the values submitted.
TransactionSubmitReturns(values) ==
    /\ transactionFormValues' = values
    /\ UNCHANGED <<transactionDialogOpen, editingTransaction,
                   selectedCustomer, transactionFetches>>

\* onTransactionSubmit(values): the transaction form passes
\* transactionSchema and is submitted.
\* ok: a user is signed in and the update or insert reaches storage.  An
\* update of a row that is gone succeeds on no row; an insert whose customer
\* is gone is refused.  When the statement does not succeed the handler
\* returns early, the form keeping the values submitted.
OnTransactionSubmit(amount, eventDate, notes, ok) ==
    /\ Rendered /\ transactionDialogOpen
    /\ transactionSchema(amount, eventDate)
    /\ selectedCustomer # 0
    /\ IF editingTransaction # 0
       THEN /\ dbTransactions' =
                 IF ok
                 THEN {IF r.id = editingTransaction
                       THEN TransactionUpdate(r, amount, eventDate, notes)
                       ELSE r : r \in dbTransactions}
                 ELSE dbTransactions
            /\ UNCHANGED <<nextTxId, history>>
       ELSE IF ok /\ CustomerExists(selectedCustomer)
            THEN /\ nextTxId <= MaxTransactions
                 /\ dbTransactions' = dbTransactions \cup
                      {TransactionRow(nextTxId,
                                      TransactionInsert(selectedCustomer,
                                          amount, eventDate, notes),
                                      now)}
                 /\ nextTxId' = nextTxId + 1
                 /\ UNCHANGED history
            ELSE /\ UNCHANGED <<dbTransactions, nextTxId>>
                 /\ history' = IF ok
                               THEN [history EXCEPT !.orphanInsert = TRUE]
                               ELSE history
    /\ IF ok /\ (editingTransaction # 0 \/ CustomerExists(selectedCustomer))
       THEN /\ transactionDialogOpen' = FALSE
            /\ editingTransaction' = 0
            /\ transactionFormValues' = DefaultTransactionValues
            /\ CallHandleCustomerClick(selectedCustomer)
       ELSE TransactionSubmitReturns(
                [amount |-> amount, eventDate |-> eventDate, notes |-> notes])
    /\ UNCHANGED <<now, dbCustomers, nextCustomerId, metricsVars, customers,
                   loading, transactions, createDialogOpen,
                   deleteCustomerDialogOpen, customerToDelete,
                   deleteTransactionId, customerFetches, pageVars, ttVars>>

\* The Delete button of a transaction in the history dialog.
ClickDeleteTransaction(id) ==
    /\ HistoryOnTop
    /\ \E r \in transactions : r.id = id
    /\ deleteTransactionId' = id
    /\ UNCHANGED <<now, storageVars, metricsVars, customers, loading,
                   selectedCustomer, transactions, createDialogOpen,
                   transactionDialogOpen, editingTransaction,
                   deleteCustomerDialogOpen, customerToDelete, customerFetches,
                   transactionFetches, pageVars, transactionFormValues,
                   ttVars>>

\* The delete-transaction alert is cancelled or dismissed: onOpenChange sets
\* deleteTransactionId null.
CloseDeleteTransactionDialog ==
    /\ Rendered /\ deleteTransactionId # 0
    /\ deleteTransactionId' = 0
    /\ UNCHANGED <<now, storageVars, metricsVars, customers, loading,
                   selectedCustomer, transactions, createDialogOpen,
                   transactionDialogOpen, editingTransaction,
                   deleteCustomerDialogOpen, customerToDelete, customerFetches,
                   transactionFetches, pageVars, transactionFormValues,
                   ttVars>>

\* handleDeleteTransaction: the alert's Delete action.  ok: the delete
\* succeeds.
HandleDeleteTransaction(ok) ==
    /\ Rendered
    /\ deleteTransactionId # 0 /\ selectedCustomer # 0
    /\ IF ok
       THEN /\ dbTransactions' = {r \in dbTransactions : r.id # deleteTransactionId}
            /\ deleteTransactionId' = 0
            /\ CallHandleCustomerClick(selectedCustomer)
       ELSE UNCHANGED <<dbTransactions, deleteTransactionId, selectedCustomer,
                        transactionFetches>>
    /\ UNCHANGED <<now, dbCustomers, nextCustomerId, nextTxId, history,
                   metricsVars,
                   customers, loading, transactions, createDialogOpen,
                   transactionDialogOpen, editingTransaction,
                   deleteCustomerDialogOpen, customerToDelete, customerFetches,
                   pageVars, transactionFormValues, ttVars>>

\* The ChevronLeft button: setCurrentPage(p => Math.max(1, p - 1)),
\* disabled={currentPage === 1}.
PreviousPage ==
    /\ PageOnTop
    /\ currentPage # 1
    /\ currentPage' = IF currentPage - 1 > 1 THEN currentPage - 1 ELSE 1
    /\ UNCHANGED <<now, storageVars, metricsVars, customers, loading,
                   selectedCustomer, transactions, dialogVars, customerFetches,
                   transactionFetches, filters, transactionFormValues, ttVars>>

\* The ChevronRight button: setCurrentPage(p => Math.min(totalPages, p + 1)),
\* disabled={currentPage === totalPages}.
NextPage ==
    /\ PageOnTop
    /\ currentPage # totalPages
    /\ currentPage' = IF totalPages < currentPage + 1 THEN totalPages
                      ELSE currentPage + 1
    /\ UNCHANGED <<now, storageVars, metricsVars, customers, loading,
                   selectedCustomer, transactions, dialogVars, customerFetches,
                   transactionFetches, filters, transactionFormValues, ttVars>>

\* A filter input of the table head is edited:
\* setFilters({ ...filters, [field]: e.target.value }).
SetFilter(field, text) ==
    /\ PageOnTop
    /\ filters[field] # text
    /\ filters' = [filters EXCEPT ![field] = text]
    /\ UNCHANGED <<now, storageVars, metricsVars, customers, loading,
                   selectedCustomer, transactions, dialogVars, customerFetches,
                   transactionFetches, currentPage, transactionFormValues,
                   ttVars>>

\* A submitted form is turned down by the browser or by the schema: no
\* handler runs.  byNumber: the number field is the reason, or one of them.
FormRefused(byNumber) ==
    /\ history' = [history EXCEPT !.refused = @ \/ byNumber]
    /\ UNCHANGED <<now, dbCustomers, dbTransactions, nextCustomerId, nextTxId,
                   metricsVars, customers, loading, selectedCustomer,
                   transactions, dialogVars, customerFetches,
                   transactionFetches, pageVars, ttVars>>

\* The values handleSubmit reads from the fields of the create form.
CreateFormValues(typed) ==
    [typed EXCEPT !.pageNo = numberValue(typed.pageNo)]

\* <form onSubmit={form.handleSubmit(onSubmit)}>: the Create button of the
\* create form, `typed` being the texts in its fields.  onSubmit runs when
\* the page number is on its step and the values pass customerSchema.
CreateFormSubmit(typed, ok) ==
    LET values == CreateFormValues(typed)
        pageNoOk == min1(values.pageNo) /\ ~stepMismatch(values.pageNo, "1")
    IN  /\ Rendered /\ createDialogOpen
        /\ IF pageNoOk /\ customerSchema(values)
           THEN OnSubmit(values, ok)
           ELSE FormRefused(~pageNoOk) /\ UNCHANGED transactionFormValues

\* <form onSubmit={transactionForm.handleSubmit(onTransactionSubmit)}>: the
\* Create or Update button of the transaction form, `typed` being the texts
\* in its fields.  onTransactionSubmit runs when the amount is on its step
\* and the values pass transactionSchema.
TransactionFormSubmit(typed, ok) ==
    LET amount == numberValue(typed.amount)
        amountOk == min1(amount) /\ ~stepMismatch(amount, "0.01")
    IN  /\ Rendered /\ transactionDialogOpen
        /\ IF amountOk /\ transactionSchema(amount, typed.eventDate)
           THEN OnTransactionSubmit(amount, typed.eventDate, typed.notes, ok)
           ELSE /\ FormRefused(~amountOk)
                /\ transactionFormValues' = [typed EXCEPT !.amount = amount]

-----------------------------------------------------------------------------
(* TransactionsTab *)

InitTransactionsTab ==
    /\ ttTransactions = {}
    /\ ttLoading = TRUE
    /\ ttPc = "mounted"

\* fetchTransactions is called by the mount effect: setLoading(true), and the
\* query is sent.
FetchTransactions ==
    /\ ttPc = "mounted"
    /\ ttLoading' = TRUE
    /\ ttPc' = "fetching"
    /\ UNCHANGED <<now, storageVars, metricsVars, tabVars, ttTransactions>>

\* The query of fetchTransactions returns data: setTransactions(data || []),
\* and finally setLoading(false).
TransactionsTabFetched ==
    /\ ttPc = "fetching"
    /\ ttTransactions' = dbTransactions
    /\ ttLoading' = FALSE
    /\ ttPc' = "done"
    /\ UNCHANGED <<now, storageVars, metricsVars, tabVars>>

\* The query of fetchTransactions returns an error: toast, and finally
\* setLoading(false).
TransactionsTabFetchError ==
    /\ ttPc = "fetching"
    /\ ttLoading' = FALSE
    /\ ttPc' = "done"
    /\ UNCHANGED <<now, storageVars, metricsVars, tabVars, ttTransactions>>

\* The tab is left and opened again: the component is mounted afresh and the
\* effect will call fetchTransactions.
TransactionsTabRemount ==
    /\ ttPc = "done"
    /\ ttTransactions' = {}
    /\ ttLoading' = TRUE
    /\ ttPc' = "mounted"
    /\ UNCHANGED <<now, storageVars, metricsVars, tabVars>>

TransactionsTabNext ==
    \/ FetchTransactions
    \/ TransactionsTabFetched
    \/ TransactionsTabFetchError
    \/ TransactionsTabRemount

\* The Badge of a transaction in the Transactions tab: its variant and sign.
TransactionsTabBadge(amount) ==
    [variant |-> IF amount >= 0 THEN "default" ELSE "destructive",
     sign |-> IF amount >= 0 THEN "+" ELSE "-"]

\* The Badge of a transaction in the history dialog of CustomersTab.
HistoryBadge(amount) ==
    [variant |-> IF amount > 0 THEN "default" ELSE "destructive",
     sign |-> IF amount > 0 THEN "+" ELSE "-"]

-----------------------------------------------------------------------------
(* The summarizer on a fixed ledger *)

\* The rows a transactions table can hold.
TxFields ==
    {<<c, a, e, t>> : c \in CustomerIds, a \in Amounts, e \in EventDates,
                      t \in CreatedDates}

\* A number for each choice of fields, to put rows in an order.
Rank(f) ==
    (((IF f[4] = T0 THEN 0 ELSE 1) * 2 + (IF f[3] = T0 THEN 0 ELSE 1))
        * MaxCustomers + (f[1] - 1)) * 1000 + (f[2] + 200)

\* Tables of n rows with ids 1..n.  Ids are opaque, so of the tables that
\* differ only in which row has which id one is kept: the one whose rows are
\* in rank order.
TxTables(n) ==
    {{TransactionRow(i, [customer_id |-> f[i][1], user_id |-> user,
                         amount |-> f[i][2], event_date |-> f[i][3],
                         notes |-> NullText],
                     f[i][4]) : i \in 1..n} :
       f \in {g \in [1..n -> TxFields] :
                \A i \in 1..n : i < n => Rank(g[i]) <= Rank(g[i + 1])}}

\* What a customer of the signed-in user was inserted with.
LedgerCustomer ==
    [user_id |-> user, page_no |-> 7, first_name |-> "A", last_name |-> "B",
     village_name |-> "V", notes |-> NullText]

\* A ledger in a consistent state: every transaction's customer exists.
InitMetrics ==
    /\ now \in Instants
    /\ \E n \in 0..MaxRows : dbTransactions \in TxTables(n)
    /\ \E ids \in SUBSET CustomerIds :
         /\ \A r \in dbTransactions : r.customer_id \in ids
         /\ dbCustomers = {CustomerRow(c, LedgerCustomer, T0) : c \in ids}
    /\ nextCustomerId = MaxCustomers + 1
    /\ nextTxId = Cardinality(dbTransactions) + 1
    /\ history = NoHistory
    /\ InitMetricsComponent
    /\ InitCustomersTab
    /\ InitTransactionsTab

NextMetrics == Tick \/ MetricsNext

SpecMetrics == InitMetrics /\ [][NextMetrics]_vars

-----------------------------------------------------------------------------
(* The ledger: one mount of CustomersTab on an initially empty ledger *)

Init ==
    /\ now = T0
    /\ dbCustomers = {}
    /\ dbTransactions = {}
    /\ nextCustomerId = 1
    /\ nextTxId = 1
    /\ history = NoHistory
    /\ InitMetricsComponent
    /\ InitCustomersTab
    /\ InitTransactionsTab

\* What is typed into the create form: a customer on page 7 of the book.
GoodCustomer ==
    [pageNo |-> "7", firstName |-> "A", lastName |-> "B", villageName |-> "V",
     notes |-> ""]

\* What is typed into the amount field of the transaction form.
AmountTexts == {"100", "-200"}

\* The clock moves from T0 to T1.
LaterTick == TickTo({T1})

Next ==
    \/ LaterTick
    \/ CustomersFetched
    \/ CustomersFetchError
    \/ \E c \in CustomerIds : ClickCustomer(c)
    \/ \E c \in CustomerIds : TransactionsFetched(c)
    \/ \E c \in CustomerIds : TransactionsFetchError(c)
    \/ CloseHistory
    \/ OpenCreateDialog
    \/ CloseCreateDialog
    \/ \E ok \in BOOLEAN : OnSubmit(GoodCustomer, ok)
    \/ \E c \in CustomerIds : ClickDeleteCustomer(c)
    \/ CloseDeleteCustomerDialog
    \/ \E ok \in BOOLEAN : HandleDeleteCustomer(ok)
    \/ \E c \in CustomerIds : ClickAddTransaction(c)
    \/ \E id \in 1..MaxTransactions : ClickEditTransaction(id)
    \/ CloseTransactionDialog
    \/ \E a \in AmountTexts, ok \in BOOLEAN :
         OnTransactionSubmit(a, "1970-01-01", "", ok)
    \/ \E id \in 1..MaxTransactions : ClickDeleteTransaction(id)
    \/ CloseDeleteTransactionDialog
    \/ \E ok \in BOOLEAN : HandleDeleteTransaction(ok)

Spec == Init /\ [][Next]_vars

-----------------------------------------------------------------------------
(* DashboardMetrics and CustomersTab mounted together on an initially empty
   ledger; every transaction is entered as amount 100, event date T0 *)

NextRace ==
    \/ FetchMetrics
    \/ CustomersRead
    \/ CustomersReadError
    \/ TransactionsRead
    \/ TransactionsReadError
    \/ CustomersFetched
    \/ CustomersFetchError
    \/ \E c \in CustomerIds : ClickCustomer(c)
    \/ \E c \in CustomerIds : TransactionsFetched(c)
    \/ \E c \in CustomerIds : TransactionsFetchError(c)
    \/ CloseHistory
    \/ OpenCreateDialog
    \/ CloseCreateDialog
    \/ \E ok \in BOOLEAN : OnSubmit(GoodCustomer, ok)
    \/ \E c \in CustomerIds : ClickDeleteCustomer(c)
    \/ CloseDeleteCustomerDialog
    \/ \E ok \in BOOLEAN : HandleDeleteCustomer(ok)
    \/ \E c \in CustomerIds : ClickAddTransaction(c)
    \/ \E id \in 1..MaxTransactions : ClickEditTransaction(id)
    \/ CloseTransactionDialog
    \/ \E ok \in BOOLEAN : OnTransactionSubmit("100", "1970-01-01", "", ok)
    \/ \E id \in 1..MaxTransactions : ClickDeleteTransaction(id)
    \/ CloseDeleteTransactionDialog
    \/ \E ok \in BOOLEAN : HandleDeleteTransaction(ok)

SpecRace == Init /\ [][NextRace]_vars

-----------------------------------------------------------------------------
(* One mount of CustomersTab on a ledger that already holds customers and
   transactions *)

\* What the user clicks in the tab.
TabClicks ==
    \/ \E c \in CustomerIds : ClickCustomer(c)
    \/ CloseHistory
    \/ OpenCreateDialog
    \/ CloseCreateDialog
    \/ \E c \in CustomerIds : ClickDeleteCustomer(c)
    \/ CloseDeleteCustomerDialog
    \/ \E c \in CustomerIds : ClickAddTransaction(c)
    \/ \E id \in 1..MaxTransactions : ClickEditTransaction(id)
    \/ CloseTransactionDialog
    \/ \E id \in 1..MaxTransactions : ClickDeleteTransaction(id)
    \/ CloseDeleteTransactionDialog

\* The forms and alerts the user confirms and the queries that come back,
\* every request reaching storage.
TabRequests(values, t) ==
    \/ CustomersFetched
    \/ \E c \in CustomerIds : TransactionsFetched(c)
    \/ OnSubmit(values, TRUE)
    \/ HandleDeleteCustomer(TRUE)
    \/ OnTransactionSubmit(t.amount, t.eventDate, t.notes, TRUE)
    \/ HandleDeleteTransaction(TRUE)

\* The customers and the transactions entered before this mount, at T0: all
\* but the last customer and all but the last transaction the bounds allow,
\* every transaction a credit of 100 of customer 1.
SeedCustomers ==
    {CustomerRow(c, LedgerCustomer, T0) : c \in 1..(MaxCustomers - 1)}
SeedTransactions ==
    {TransactionRow(i, [customer_id |-> 1, user_id |-> user, amount |-> 100,
                        event_date |-> T0, notes |-> NullText], T0) :
       i \in 1..(MaxTransactions - 1)}

InitLedger ==
    /\ now = T1
    /\ dbCustomers = SeedCustomers
    /\ dbTransactions = SeedTransactions
    /\ nextCustomerId = MaxCustomers
    /\ nextTxId = MaxTransactions
    /\ history = NoHistory
    /\ InitMetricsComponent
    /\ InitCustomersTab
    /\ InitTransactionsTab

\* What is typed into the transaction form in this mount: a debit of 200
\* dated T1, with a note.
Debit == [amount |-> "-200", eventDate |-> "1970-02-05", notes |-> "n"]

TabNext ==
    \/ TabClicks
    \/ TabRequests(GoodCustomer, Debit)

SpecTab == InitLedger /\ [][TabNext]_vars

-----------------------------------------------------------------------------
(* The history dialog of CustomersTab, opened through handleCustomerClick
   only: the cells of the rows, and the handlers that end with it *)

HistoryNext ==
    \/ CustomersFetched
    \/ \E c \in CustomerIds : ClickCustomer(c)
    \/ \E c \in CustomerIds : TransactionsFetched(c)
    \/ \E c \in CustomerIds : TransactionsFetchError(c)
    \/ CloseHistory
    \/ OpenCreateDialog
    \/ CloseCreateDialog
    \/ OnSubmit(GoodCustomer, TRUE)
    \/ \E id \in 1..MaxTransactions : ClickEditTransaction(id)
    \/ CloseTransactionDialog
    \/ OnTransactionSubmit(Debit.amount, Debit.eventDate, Debit.notes, TRUE)
    \/ \E id \in 1..MaxTransactions : ClickDeleteTransaction(id)
    \/ CloseDeleteTransactionDialog
    \/ HandleDeleteTransaction(TRUE)

SpecHistory == InitLedger /\ [][HistoryNext]_vars

-----------------------------------------------------------------------------
(* The customers table of CustomersTab on a ledger of up to MaxListed
   customers: paging, filtering, and deleting the last customer of the list *)

\* Customer c of the list: entered at T0 on page c of the book.
ListedCustomer(c) ==
    CustomerRow(c, [LedgerCustomer EXCEPT !.page_no = c], T0)

InitPages ==
    /\ now = T1
    /\ \E n \in 0..MaxListed :
         /\ dbCustomers = {ListedCustomer(c) : c \in 1..n}
         /\ nextCustomerId = n + 1
    /\ dbTransactions = {}
    /\ nextTxId = 1
    /\ history = NoHistory
    /\ InitMetricsComponent
    /\ InitCustomersTab
    /\ InitTransactionsTab

\* The texts typed into the first name filter and the page number filter.
FirstNameFilters == {"", "a", "z"}
PageNoFilters == {"", "1", "2", "12"}

PagesNext ==
    \/ CustomersFetched
    \/ PreviousPage
    \/ NextPage
    \/ \E text \in FirstNameFilters : SetFilter("firstName", text)
    \/ \E text \in PageNoFilters : SetFilter("pageNo", text)
    \/ ClickDeleteCustomer(Cardinality(customers))
    \/ CloseDeleteCustomerDialog
    \/ HandleDeleteCustomer(TRUE)

SpecPages == InitPages /\ [][PagesNext]_vars

-----------------------------------------------------------------------------
(* The fetches of the three components on an initially empty ledger:
   fetchMetrics, fetchCustomers (at mount and after every customer created or
   deleted) and fetchTransactions, each returning data or an error *)

FetchesNext ==
    \/ MetricsNext
    \/ TransactionsTabNext
    \/ CustomersFetched
    \/ CustomersFetchError
    \/ OpenCreateDialog
    \/ CloseCreateDialog
    \/ OnSubmit(GoodCustomer, TRUE)
    \/ \E c \in CustomerIds : ClickDeleteCustomer(c)
    \/ CloseDeleteCustomerDialog
    \/ HandleDeleteCustomer(TRUE)

\* Every mount effect runs, and every storage call returns, with data or
\* with an error.
FetchesFairness ==
    /\ WF_vars(FetchMetrics)
    /\ WF_vars(CustomersRead \/ CustomersReadError)
    /\ WF_vars(TransactionsRead \/ TransactionsReadError)
    /\ WF_vars(CustomersFetched \/ CustomersFetchError)
    /\ WF_vars(FetchTransactions)
    /\ WF_vars(TransactionsTabFetched \/ TransactionsTabFetchError)

SpecFetches == Init /\ [][FetchesNext]_vars /\ FetchesFairness

-----------------------------------------------------------------------------
(* CustomersTab and TransactionsTab on one ledger, the transactions entered in
   this mount having amount 0 *)

\* What is typed into the transaction form: amount 0, dated T0.
Zero == [amount |-> "0", eventDate |-> "1970-01-01", notes |-> ""]

ViewsNext ==
    \/ TabClicks
    \/ TabRequests(GoodCustomer, Zero)
    \/ TransactionsTabNext

SpecViews == InitLedger /\ [][ViewsNext]_vars

-----------------------------------------------------------------------------
(* One mount of CustomersTab on the ledger above, the statements of its
   handlers reaching storage or failing *)

TabFailuresNext ==
    \/ TabNext
    \/ OnSubmit(GoodCustomer, FALSE)
    \/ HandleDeleteCustomer(FALSE)
    \/ OnTransactionSubmit(Debit.amount, Debit.eventDate, Debit.notes, FALSE)
    \/ HandleDeleteTransaction(FALSE)

SpecTabFailures == InitLedger /\ [][TabFailuresNext]_vars

-----------------------------------------------------------------------------
(* One mount of CustomersTab, the user typing all sorts of texts into one of
   the forms *)

\* The queries that come back and the alerts the user confirms, every request
\* reaching storage.
TabQueries ==
    \/ CustomersFetched
    \/ \E c \in CustomerIds : TransactionsFetched(c)
    \/ HandleDeleteCustomer(TRUE)
    \/ HandleDeleteTransaction(TRUE)

PageNoTexts == {"7", "0", "-3", "2.5", "abc", ""}

\* The texts that spell a positive integer, among those typed.
IsPositiveInteger(text) == text \in {"1", "7"}

\* What is typed into the create form.
CustomerForms ==
    {[GoodCustomer EXCEPT !.pageNo = p, !.firstName = f] :
       p \in PageNoTexts, f \in {"A", ""}}

AmountFieldTexts == {"100", "12abc", "12.345", ""}

\* What is typed into the transaction form.
TransactionForms ==
    {[amount |-> a, eventDate |-> d, notes |-> ""] :
       a \in AmountFieldTexts, d \in {"1970-01-01", ""}}

\* A credit of 100 dated T0.
Credit == [amount |-> "100", eventDate |-> "1970-01-01", notes |-> ""]

\* The create form on an initially empty ledger.
CustomerFormNext ==
    \/ TabClicks
    \/ TabQueries
    \/ \E typed \in CustomerForms : CreateFormSubmit(typed, TRUE)
    \/ TransactionFormSubmit(Credit, TRUE)

SpecCustomerForm == Init /\ [][CustomerFormNext]_vars

\* The transaction form on a ledger that already holds customers and
\* transactions.
TransactionFormNext ==
    \/ TabClicks
    \/ TabQueries
    \/ CreateFormSubmit(GoodCustomer, TRUE)
    \/ \E typed \in TransactionForms : TransactionFormSubmit(typed, TRUE)

SpecTransactionForm == InitLedger /\ [][TransactionFormNext]_vars

-----------------------------------------------------------------------------
(* Requests of other sessions: statements on public.customers sent by a
   client whose auth.uid() is uid *)

\* insert of a customer row whose user_id is owner
SessionInsertCustomer(uid, owner) ==
    /\ nextCustomerId <= MaxCustomers
    /\ LET row == CustomerRow(nextCustomerId,
                               [LedgerCustomer EXCEPT !.user_id = owner], now)
       IN IF CanInsertCustomer(uid, row)
          THEN /\ dbCustomers' = dbCustomers \cup {row}
               /\ nextCustomerId' = nextCustomerId + 1
          ELSE UNCHANGED <<dbCustomers, nextCustomerId>>
    /\ UNCHANGED <<now, dbTransactions, nextTxId, history, metricsVars, tabVars,
                   ttVars>>

\* update({user_id: owner}).eq('id', c): the policy picks the rows, the
\* trigger stamps the new row, and the policy checks the new row.
SessionUpdateCustomer(uid, c, owner) ==
    /\ \E row \in dbCustomers : row.id = c
    /\ LET row == CHOOSE r \in dbCustomers : r.id = c
           new == update_updated_at_column([row EXCEPT !.user_id = owner])
       IN IF CanUpdateCustomer(uid, row) /\ CanUpdateCustomer(uid, new)
          THEN dbCustomers' = (dbCustomers \ {row}) \cup {new}
          ELSE UNCHANGED dbCustomers
    /\ UNCHANGED <<now, dbTransactions, nextCustomerId, nextTxId, history,
                   metricsVars, tabVars, ttVars>>

\* delete().eq('id', c)
SessionDeleteCustomer(uid, c) ==
    /\ \E row \in dbCustomers : row.id = c
    /\ DeleteCustomer(uid, c)
    /\ UNCHANGED <<now, nextCustomerId, nextTxId, history, metricsVars, tabVars,
                   ttVars>>

\* The mount of CustomersTab while another session of the user deletes
\* customers and the other user creates some.
LedgerNext ==
    \/ TabNext
    \/ \E c \in CustomerIds : SessionDeleteCustomer(user, c)
    \/ SessionInsertCustomer(user + 1, user + 1)

SpecLedger == InitLedger /\ [][LedgerNext]_vars

\* The statements a session of uid sends
SessionNext(uid) ==
    \/ \E owner \in Users : SessionInsertCustomer(uid, owner)
    \/ \E c \in CustomerIds, owner \in Users : SessionUpdateCustomer(uid, c, owner)
    \/ \E c \in CustomerIds : SessionDeleteCustomer(uid, c)

-----------------------------------------------------------------------------
(* DashboardMetrics on a customers table that the sessions of all users
   write to *)

UsersNext ==
    \/ LaterTick
    \/ \E uid \in Users : SessionNext(uid)
    \/ MetricsNext

SpecUsers == Init /\ [][UsersNext]_vars

-----------------------------------------------------------------------------
(* Properties of the summarizer *)

\* Every transaction's customer_id is the id of a customer.
Consistent(cs, ts) ==
    \A r \in ts : \E c \in cs : c.id = r.customer_id

\* The rows created at or after t - span.
CreatedWithin(span, t) == {r \in dbTransactions : t - r.created_date <= span}

\* C2: a metrics record computed from the customers and the transactions of
\* one consistent storage state has activeCustomers <= totalCustomers.
C2_ActiveAtMostTotal ==
    (metrics.def /\ Consistent(dbCustomers, dbTransactions))
        => metrics.activeCustomers <= metrics.totalCustomers

\* A record is published for one customer with several transactions in the
\* 30-day window.
C2_Witness ==
    /\ metrics.def
    /\ metrics.totalCustomers = 1
    /\ metrics.activeCustomers = 1
    /\ Cardinality(CreatedWithin(MonthSpan, mNow)) >= 2

\* C4: creditAmount - debitAmount is the plain sum of the signed amounts of
\* all transactions; amounts +500, -200, +100 give credit 600, debit 200 and
\* net 400.
C4_NetIsCreditMinusDebit ==
    metrics.def =>
        /\ metrics.creditAmount - metrics.debitAmount = SumAmount(dbTransactions)
        /\ (/\ Cardinality(dbTransactions) = 3
            /\ {r.amount : r \in dbTransactions} = {500, -200, 100})
           => /\ metrics.creditAmount = 600
              /\ metrics.debitAmount = 200
              /\ metrics.creditAmount - metrics.debitAmount = 400

\* The record of the ledger +500, -200, +100 is published.
C4_Witness ==
    /\ metrics.def
    /\ Cardinality(dbTransactions) = 3
    /\ {r.amount : r \in dbTransactions} = {500, -200, 100}
    /\ metrics.creditAmount = 600
    /\ metrics.debitAmount = 200

\* The rows whose event date lies in the span seconds before t.
EventWithin(span, t) ==
    {r \in dbTransactions : r.event_date <= t /\ t - r.event_date <= span}

\* C5 as stated: lastWeekAmount is the sum of the signed amounts of exactly
\* the transactions whose event_date lies in the last 7 days before the
\* computation instant, and lastMonthAmount the same for 30 days.
C5_EventDateWindows ==
    metrics.def =>
        /\ metrics.lastWeekAmount = SumAmount(EventWithin(WeekSpan, mNow))
        /\ metrics.lastMonthAmount = SumAmount(EventWithin(MonthSpan, mNow))

\* C5 amended: lastWeekAmount is the sum of the signed amounts of exactly the
\* transactions whose created_date is not earlier than 7 days before the
\* computation instant, and lastMonthAmount the same for 30 days.
C5_CreatedDateWindows ==
    metrics.def =>
        /\ metrics.lastWeekAmount = SumAmount(CreatedWithin(WeekSpan, mNow))
        /\ metrics.lastMonthAmount = SumAmount(CreatedWithin(MonthSpan, mNow))

\* A record is published while a back-dated transaction (created within the
\* last week, event date more than 30 days back) carries a non-zero amount.
C5_Witness ==
    /\ metrics.def
    /\ metrics.lastWeekAmount # 0
    /\ \E r \in dbTransactions :
         /\ mNow - r.created_date <= WeekSpan
         /\ mNow - r.event_date > MonthSpan
         /\ r.amount # 0

\* The rows created exactly span seconds before t, and those created later.
CreatedAt(span, t) == {r \in dbTransactions : r.created_date = t - span}
CreatedAfter(span, t) == {r \in dbTransactions : r.created_date > t - span}

\* What C6 says of a record published at instant t.
BoundaryCounted(m, t) ==
    /\ m.lastWeekAmount =
         SumAmount(CreatedAt(WeekSpan, t)) + SumAmount(CreatedAfter(WeekSpan, t))
    /\ m.lastMonthAmount =
         SumAmount(CreatedAt(MonthSpan, t)) + SumAmount(CreatedAfter(MonthSpan, t))
    /\ m.activeCustomers =
         Cardinality({r.customer_id :
                        r \in CreatedAt(MonthSpan, t) \cup CreatedAfter(MonthSpan, t)})

\* C6: a transaction created exactly 7 days before the computation instant is
\* counted in lastWeekAmount, one created exactly 30 days before it is counted
\* in lastMonthAmount and makes its customer active, and a transaction
\* strictly older than a boundary is not counted in that window.
C6_BoundaryInclusive ==
    /\ metrics.def => BoundaryCounted(metrics, mNow)
    /\ prevRun.def => BoundaryCounted(prevRun.metrics, prevRun.at)

\* One mount published with a transaction exactly on the 7-day boundary, the
\* next with the same transaction exactly on the 30-day boundary.
C6_Witness ==
    /\ prevRun.def /\ metrics.def
    /\ \E r \in dbTransactions :
         /\ r.amount # 0
         /\ r.created_date = prevRun.at - WeekSpan
         /\ r.created_date = mNow - MonthSpan
    /\ prevRun.metrics.lastWeekAmount # 0
    /\ metrics.lastMonthAmount # 0
    /\ metrics.activeCustomers >= 1

\* C7: every transaction counted in lastWeekAmount is counted in
\* lastMonthAmount: the two filters agree on a row of the last week, and the
\* month sum is the week sum plus the rows between the two boundaries.
C7_WeekWithinMonth ==
    metrics.def =>
        /\ \A r \in dbTransactions :
             InLastWeek(r, OneWeekAgo(mNow)) => InLastMonth(r, OneMonthAgo(mNow))
        /\ metrics.lastMonthAmount =
             metrics.lastWeekAmount
               + SumAmount(CreatedWithin(MonthSpan, mNow) \ CreatedWithin(WeekSpan, mNow))

\* A record is published with a back-dated transaction inside the week window.
C7_Witness ==
    /\ metrics.def
    /\ metrics.lastWeekAmount # 0
    /\ metrics.lastMonthAmount = metrics.lastWeekAmount
    /\ \E r \in CreatedWithin(WeekSpan, mNow) : r.event_date # r.created_date

\* C8: activeCustomers is the number of distinct customer ids with at least
\* one transaction created in the last 30 days; with two customers whose
\* transactions are 5 and 40 days old it is 1 and totalCustomers is 2.
C8_DistinctActive ==
    metrics.def =>
        /\ metrics.activeCustomers =
             Cardinality({c \in CustomerIds :
                            \E r \in dbTransactions :
                               r.customer_id = c /\ mNow - r.created_date <= MonthSpan})
        /\ (/\ Cardinality(dbCustomers) = 2
            /\ \A c \in dbCustomers : \E r \in dbTransactions : r.customer_id = c.id
            /\ \E c \in dbCustomers :
                 /\ \A r \in dbTransactions :
                      r.customer_id = c.id => mNow - r.created_date = 5 * Day
                 /\ \A r \in dbTransactions :
                      r.customer_id # c.id => mNow - r.created_date = 40 * Day)
           => metrics.activeCustomers = 1 /\ metrics.totalCustomers = 2

\* The record of the two-customer example is published: one customer with
\* two transactions 5 days old, the other with one 40 days old.
C8_Witness ==
    /\ metrics.def
    /\ metrics.activeCustomers = 1
    /\ metrics.totalCustomers = 2
    /\ \E r1, r2, r3 \in dbTransactions :
         /\ r1.id # r2.id
         /\ r1.customer_id = r2.customer_id
         /\ r3.customer_id # r1.customer_id
         /\ mNow - r1.created_date = 5 * Day
         /\ mNow - r2.created_date = 5 * Day
         /\ mNow - r3.created_date = 40 * Day

\* C9 as stated: two runs on unchanged collections publish the same record,
\* whatever the instants of the two runs.
C9_SameRecordAnyInstant ==
    (prevRun.def /\ metrics.def) => prevRun.metrics = metrics

\* C9 amended: two runs on unchanged collections publish the same record in
\* all six fields when they happen at the same instant; at different instants
\* totalCustomers, creditAmount and debitAmount are still the same.
C9_SameRecordSameInstant ==
    (prevRun.def /\ metrics.def) =>
        /\ prevRun.at = mNow => prevRun.metrics = metrics
        /\ prevRun.metrics.totalCustomers = metrics.totalCustomers
        /\ prevRun.metrics.creditAmount = metrics.creditAmount
        /\ prevRun.metrics.debitAmount = metrics.debitAmount

\* Two mounts have published, the second after a credit left the 30-day
\* window.
C9_Witness ==
    /\ prevRun.def /\ metrics.def
    /\ prevRun.at # mNow
    /\ metrics.creditAmount > 0
    /\ prevRun.metrics.lastMonthAmount # metrics.lastMonthAmount

\* The record whose six fields are 0.
ZeroMetrics ==
    [def |-> TRUE, lastWeekAmount |-> 0, lastMonthAmount |-> 0,
     totalCustomers |-> 0, activeCustomers |-> 0, creditAmount |-> 0,
     debitAmount |-> 0]

\* C10: when both queries return an empty (or null) collection, fetchMetrics
\* publishes the record whose six fields are 0, raises no toast and ends with
\* loading false.
C10_EmptyLedgerAllZero ==
    [][(/\ TransactionsRead
        /\ mCustomers.rows = {}
        /\ dbTransactions = {})
       => /\ metrics' = ZeroMetrics
          /\ metricsToast' = FALSE
          /\ metricsLoading' = FALSE]_vars

\* fetchMetrics has finished on an empty ledger whose customers query
\* returned null.
C10_Witness ==
    /\ metricsPc = "done"
    /\ mCustomers.isNull
    /\ dbCustomers = {} /\ dbTransactions = {}
    /\ metrics = ZeroMetrics
    /\ ~metricsToast

\* C11: in every metrics record creditAmount, debitAmount, totalCustomers and
\* activeCustomers are >= 0 whatever the mix of positive, negative and zero
\* amounts; lastWeekAmount and lastMonthAmount are the only fields that can be
\* negative.
C11_CountsAndTotalsNonNegative ==
    metrics.def =>
        /\ metrics.creditAmount >= 0
        /\ metrics.debitAmount >= 0
        /\ metrics.totalCustomers >= 0
        /\ metrics.activeCustomers >= 0

\* A record is published for a ledger mixing a positive, a zero and a negative
\* amount whose two windowed sums are negative.
C11_Witness ==
    /\ metrics.def
    /\ \E r1, r2, r3 \in dbTransactions :
         r1.amount > 0 /\ r2.amount = 0 /\ r3.amount < 0
    /\ metrics.lastWeekAmount < 0
    /\ metrics.lastMonthAmount < 0
    /\ metrics.debitAmount > metrics.creditAmount

\* max(a, 0) and max(-a, 0)
CreditPart(a) == IF a > 0 THEN a ELSE 0
DebitPart(a) == IF a < 0 THEN -a ELSE 0

RECURSIVE CreditParts(_)
\* the sum of the credit parts of the rows of S
CreditParts(S) ==
    IF S = {} THEN 0
    ELSE LET r == CHOOSE x \in S : TRUE
         IN CreditPart(r.amount) + CreditParts(S \ {r})

RECURSIVE DebitParts(_)
\* the sum of the debit parts of the rows of S
DebitParts(S) ==
    IF S = {} THEN 0
    ELSE LET r == CHOOSE x \in S : TRUE
         IN DebitPart(r.amount) + DebitParts(S \ {r})

\* C12: creditAmount and debitAmount are all-time sums: every transaction
\* with amount > 0 adds its amount to creditAmount and every transaction with
\* amount < 0 adds its absolute value to debitAmount, whatever its created or
\* event date.
C12_AllTimeCreditDebit ==
    metrics.def =>
        /\ metrics.creditAmount = CreditParts(dbTransactions)
        /\ metrics.debitAmount = DebitParts(dbTransactions)

\* A record is published for a ledger whose credits and debits are all older
\* than 30 days.
C12_Witness ==
    /\ metrics.def
    /\ CreatedWithin(MonthSpan, mNow) = {}
    /\ \E r \in dbTransactions : r.amount > 0
    /\ \E r \in dbTransactions : r.amount < 0
    /\ metrics.creditAmount > 0
    /\ metrics.debitAmount > 0
    /\ metrics.lastMonthAmount = 0

\* The transactions of non-zero amount, as a query result.
NonZeroRows == Rows({r \in dbTransactions : r.amount # 0})

\* The customers whose transactions of the last 30 days before t exist and
\* all have amount 0.
ZeroOnlyActive(t) ==
    {c \in CustomerIds :
       /\ \E r \in CreatedWithin(MonthSpan, t) : r.customer_id = c
       /\ \A r \in CreatedWithin(MonthSpan, t) :
            r.customer_id = c => r.amount = 0}

\* C13: the transactions of amount 0 change neither creditAmount nor
\* debitAmount nor the windowed sums (the four fields are those of the ledger
\* without them), but they are counted as present: a customer whose only
\* transactions in the 30-day window have amount 0 is counted in
\* activeCustomers.
C13_ZeroAmountCountedAsPresent ==
    metrics.def =>
        /\ metrics.creditAmount = CreditAmount(NonZeroRows)
        /\ metrics.debitAmount = DebitAmount(NonZeroRows)
        /\ metrics.lastWeekAmount = LastWeekAmount(NonZeroRows, mNow)
        /\ metrics.lastMonthAmount = LastMonthAmount(NonZeroRows, mNow)
        /\ metrics.activeCustomers =
             ActiveCustomers(NonZeroRows, mNow) + Cardinality(ZeroOnlyActive(mNow))

\* A record is published for a ledger where one customer has only a
\* zero-amount transaction in the 30-day window and another has a credit.
C13_Witness ==
    /\ metrics.def
    /\ Cardinality(ZeroOnlyActive(mNow)) = 1
    /\ metrics.activeCustomers = 2
    /\ metrics.creditAmount > 0

-----------------------------------------------------------------------------
(* Properties of the stored ledger *)

\* C1: each customer's stored pending_amount is the sum of the signed amounts
\* of that customer's current transactions.
C1_PendingAmountIsSum ==
    \A c \in dbCustomers : c.pending_amount = SumAmount(TransactionsOf(c.id))

\* C3: every published metrics record has activeCustomers <= totalCustomers,
\* also when customers and transactions are created or deleted between the
\* read of the customers table and the read of the transactions table.
C3_ActiveAtMostTotalUnderWrites ==
    metrics.def => ~(metrics.activeCustomers > metrics.totalCustomers)

\* The customer ids handed out so far whose row is gone.
DeletedCustomers ==
    {c \in CustomerIds : c < nextCustomerId /\ ~CustomerExists(c)}

\* C14: after a customer is deleted through handleDeleteCustomer no
\* transaction that referenced it remains in storage, then or later, so a
\* later read of the transactions table has none of them to count.
C14_DeletedCustomerHasNoTransactions ==
    \A c \in DeletedCustomers : TransactionsOf(c) = {}

\* handleDeleteCustomer has deleted customer 1, which had transactions.
C14_Witness ==
    /\ history.cascaded
    /\ 1 \in DeletedCustomers
    /\ TransactionsOf(1) = {}

\* C15: in every reachable state each transaction's customer_id is the id of
\* an existing customer whose user_id is the transaction's user_id; a
\* transaction submitted for a selectedCustomer that another session has
\* deleted meanwhile is not stored.
C15_TransactionCustomerExistsSameOwner ==
    \A r \in dbTransactions :
       \E c \in dbCustomers : c.id = r.customer_id /\ c.user_id = r.user_id

\* The transaction form was submitted as an insert for a selectedCustomer that
\* another session had deleted, and storage refused it; the form is still
\* open on that customer, and the transactions of another customer are
\* stored.
C15_Witness ==
    /\ history.orphanInsert
    /\ transactionDialogOpen
    /\ editingTransaction = 0
    /\ selectedCustomer # 0
    /\ ~CustomerExists(selectedCustomer)
    /\ TransactionsOf(selectedCustomer) = {}
    /\ dbTransactions # {}

\* The customers uid owns, and the others.
OwnedBy(uid, table) == {row \in table : row.user_id = uid}
NotOwnedBy(uid, table) == {row \in table : row.user_id # uid}

\* C16: a user's read of the customers table returns exactly the rows whose
\* user_id is that user; no statement of a user inserts, updates or deletes a
\* row owned by another user; and totalCustomers is the number of the
\* requesting user's customers that the read returned, whatever rows the
\* other users have.
C16_OwnRowsOnly ==
    [][/\ CustomersRead => mCustomers'.rows = OwnedBy(user, dbCustomers)
       /\ \A uid \in Users :
            SessionNext(uid) =>
               NotOwnedBy(uid, dbCustomers') = NotOwnedBy(uid, dbCustomers)
       /\ (TransactionsRead /\ metrics'.def) =>
            /\ metrics'.totalCustomers = Cardinality(mCustomers.rows)
            /\ mCustomers.rows = OwnedBy(user, mCustomers.rows)]_vars

\* A record is published that counts the one customer of the user while the
\* other user has a customer too, after statements on rows of another user
\* were refused.
C16_Witness ==
    /\ metrics.def
    /\ metrics.totalCustomers = 1
    /\ Cardinality(OwnedBy(user, dbCustomers)) = 1
    /\ Cardinality(NotOwnedBy(user, dbCustomers)) = 1
    /\ mCustomers.rows = OwnedBy(user, dbCustomers)

\* C17: editing a transaction through onTransactionSubmit changes only its
\* amount, event date and notes: its id, customer_id, user_id and
\* created_date stay, no other transaction changes, none appears or
\* disappears, and the customers table is untouched.
C17_EditChangesOnlyThreeColumns ==
    [][(/\ editingTransaction # 0
        /\ OnTransactionSubmit(Debit.amount, Debit.eventDate, Debit.notes, TRUE))
       => /\ dbCustomers' = dbCustomers
          /\ {r.id : r \in dbTransactions'} = {r.id : r \in dbTransactions}
          /\ \A r \in dbTransactions :
               \E q \in dbTransactions' :
                  /\ q.id = r.id
                  /\ q.customer_id = r.customer_id
                  /\ q.user_id = r.user_id
                  /\ q.created_date = r.created_date
                  /\ r.id # editingTransaction => q = r
                  /\ r.id = editingTransaction =>
                       /\ q.amount = -200
                       /\ q.event_date = T1
                       /\ q.notes = Text("n")]_vars

\* A transaction entered at T0 as a credit of 100 has been edited into the
\* debit, next to another transaction.
C17_Witness ==
    /\ \E r \in dbTransactions :
         /\ r.id < MaxTransactions
         /\ r.customer_id = 1 /\ r.user_id = user
         /\ r.created_date = T0
         /\ r.amount = -200
         /\ r.event_date = T1
         /\ r.notes = Text("n")
    /\ Cardinality(dbTransactions) >= 2

\* C18: a customer's updated_at is never earlier than its created_date, and a
\* change to the customer's transaction set refreshes it: it is not earlier
\* than the creation of any of the customer's transactions.
C18_UpdatedAtFollowsTransactions ==
    \A c \in dbCustomers :
       /\ c.created_date <= c.updated_at
       /\ \A r \in TransactionsOf(c.id) : r.created_date <= c.updated_at

\* The amounts the well-formed texts typed into the amount field spell, and
\* the amount of the transactions entered before.
WellFormedAmounts ==
    {parseFloat(a) : a \in {t \in AmountFieldTexts :
                              IsNumber(t) /\ ~stepMismatch(t, "0.01")}}
      \cup {r.amount : r \in SeedTransactions}

\* C19: a transaction form whose amount text is not a well-formed number is
\* rejected before any insert or update reaches storage: submitting it leaves
\* the transactions table as it was, and every stored amount is a number that
\* a well-formed text spells.
C19_MalformedAmountRejected ==
    /\ [][\A t \in TransactionForms :
            (/\ ~IsNumber(t.amount)
             /\ TransactionFormSubmit(t, TRUE))
            => UNCHANGED <<dbTransactions, nextTxId>>]_vars
    /\ [](\A r \in dbTransactions : r.amount \in WellFormedAmounts)

\* A form was turned down for its amount while the transaction dialog is
\* still open on it, and a transaction entered through the form is stored.
C19_Witness ==
    /\ history.refused
    /\ transactionDialogOpen
    /\ \E r \in dbTransactions : r.id >= MaxTransactions /\ r.amount = 100

\* C20: every customer created through onSubmit has a positive integer
\* page_no and non-empty first, last and village names; a form whose page
\* number is 0, negative or not an integer inserts nothing.
C20_CustomerFieldsValid ==
    [][\A typed \in CustomerForms :
         CreateFormSubmit(typed, TRUE)
         => /\ \A row \in dbCustomers' \ dbCustomers :
                 /\ row.page_no > 0
                 /\ row.first_name # ""
                 /\ row.last_name # ""
                 /\ row.village_name # ""
            /\ ~IsPositiveInteger(typed.pageNo) => dbCustomers' = dbCustomers]_vars

-----------------------------------------------------------------------------
(* Properties of the components' error paths and views *)

\* C21: when the customers read or the transactions read fails, fetchMetrics
\* publishes nothing (metrics keeps its value, so no record made of the read
\* that did return is shown), raises its error toast and ends with loading
\* false.
C21_FailedReadPublishesNothing ==
    /\ [][(CustomersReadError \/ TransactionsReadError)
           => /\ metrics' = metrics
              /\ metricsToast'
              /\ ~metricsLoading'
              /\ metricsPc' = "done"]_vars
    /\ [](metricsToast => ~metrics.def /\ ~metricsLoading)

\* The customers read returned rows, the transactions read failed on a ledger
\* that holds transactions: the toast is up, nothing is published.
C21_Witness ==
    /\ metricsPc = "done"
    /\ metricsToast
    /\ ~metricsLoading
    /\ ~metrics.def
    /\ ~mCustomers.isNull /\ mCustomers.rows # {}
    /\ dbTransactions # {}

\* C22: in the history dialog and in the Transactions tab a transaction is
\* rendered as a debit ('-' sign, destructive badge) exactly when its amount
\* is < 0, so a transaction shown in both views has the same badge in both.
C22_DebitIffNegativeInEveryView ==
    /\ selectedCustomer # 0 =>
          \A r \in transactions :
             /\ HistoryBadge(r.amount).sign = "-" <=> r.amount < 0
             /\ HistoryBadge(r.amount).variant = "destructive" <=> r.amount < 0
    /\ \A r \in ttTransactions :
          /\ TransactionsTabBadge(r.amount).sign = "-" <=> r.amount < 0
          /\ TransactionsTabBadge(r.amount).variant = "destructive"
               <=> r.amount < 0
    /\ selectedCustomer # 0 =>
          \A r \in transactions \cap ttTransactions :
             HistoryBadge(r.amount) = TransactionsTabBadge(r.amount)

\* C23: whenever the history dialog is open for a selected customer and no
\* transactions fetch is in flight, every transaction of the displayed list
\* is one of that customer, whether the customer was selected by a click on a
\* cell of its row or by its Add Transaction button.
C23_DisplayedListIsSelectedCustomers ==
    (selectedCustomer # 0 /\ transactionFetches = {})
    => \A r \in transactions : r.customer_id = selectedCustomer

\* C24: when handleCustomerClick has been invoked for a customer and then for
\* another before the first fetch returned, the list displayed once the last
\* of the fetches has returned is that of the customer selected last,
\* whichever response arrives first.
C24_LastClickWins ==
    [][\A c \in CustomerIds :
         (/\ TransactionsFetched(c)
          /\ transactionFetches' = {}
          /\ selectedCustomer' # 0)
         => \A r \in transactions' : r.customer_id = selectedCustomer']_vars

-----------------------------------------------------------------------------
(* Properties of the customers table *)

\* C25: after any sequence of Previous and Next clicks, filter edits and
\* reloads of the customer list currentPage is >= 1, also when no customer
\* matches (totalPages = 0), so the start index of the slice is never
\* negative.
C25_CurrentPageAtLeastOne ==
    /\ currentPage >= 1
    /\ startIndex(currentPage) >= 0

\* C26: whenever at least one customer matches the filters the displayed page
\* is not empty, that is currentPage <= totalPages, after any sequence of page
\* clicks, filter edits and deletions of customers.
C26_DisplayedPageNotEmpty ==
    (~loading /\ Len(filteredCustomers) >= 1)
    => /\ currentPage <= totalPages
       /\ paginatedCustomers # <<>>

RECURSIVE PagesUpTo(_)
\* Pages 1..p of the filtered list, one after the other.
PagesUpTo(p) == IF p = 0 THEN <<>> ELSE PagesUpTo(p - 1) \o pageOf(p)

\* C27: the pages 1..totalPages partition the filtered list: a page holds at
\* most itemsPerPage customers, every page but the last exactly itemsPerPage,
\* every filtered customer is on exactly one page, and the pages one after
\* the other are the filtered list in its order.
C27_PagesPartitionFilteredList ==
    /\ \A p \in 1..totalPages :
          /\ Len(pageOf(p)) <= itemsPerPage
          /\ Len(pageOf(p)) >= 1
          /\ p < totalPages => Len(pageOf(p)) = itemsPerPage
    /\ \A i \in 1..Len(filteredCustomers) :
          Cardinality({p \in 1..totalPages :
                         \E j \in 1..Len(pageOf(p)) :
                            pageOf(p)[j] = filteredCustomers[i]}) = 1
    /\ PagesUpTo(totalPages) = filteredCustomers

\* More than two full pages of customers match the filters, and the third,
\* partly filled page is displayed.
C27_Witness ==
    /\ ~loading
    /\ Len(filteredCustomers) > 2 * itemsPerPage
    /\ Len(filteredCustomers) < 3 * itemsPerPage
    /\ currentPage = 3
    /\ Len(paginatedCustomers) = Len(filteredCustomers) - 2 * itemsPerPage

-----------------------------------------------------------------------------
(* Properties of the transaction dialog *)

\* C28: whenever the transaction dialog is closed editingTransaction is null,
\* after a successful submit, Cancel or dismissal; so the Add Transaction
\* button opens the dialog with editingTransaction null, and the submit that
\* follows inserts a new transaction and updates none.
C28_ClosedDialogEditsNothing ==
    /\ [](~transactionDialogOpen => editingTransaction = 0)
    /\ [][\A c \in CustomerIds :
            ClickAddTransaction(c)
            => /\ transactionDialogOpen'
               /\ editingTransaction' = 0]_vars
    /\ [][(/\ editingTransaction = 0
            /\ OnTransactionSubmit(Debit.amount, Debit.eventDate, Debit.notes,
                                   TRUE))
           => /\ dbTransactions \subseteq dbTransactions'
              /\ Cardinality(dbTransactions') = Cardinality(dbTransactions) + 1
          ]_vars

\* A transaction entered before has been edited into the debit, and the
\* dialog has since been opened again by an Add Transaction button: it is
\* open with editingTransaction null and an empty form.
C28_Witness ==
    /\ \E r \in dbTransactions : r.id < MaxTransactions /\ r.amount = -200
    /\ transactionDialogOpen
    /\ editingTransaction = 0
    /\ transactionFormValues = DefaultTransactionValues
    /\ transactionFetches = {}

\* C29: when the update or insert of onTransactionSubmit fails the
\* transaction dialog stays open, editingTransaction and the displayed list
\* are unchanged, no fetch of the list is started and the form keeps the
\* values submitted; when the delete of handleDeleteTransaction fails
\* deleteTransactionId and the displayed list are unchanged.
C29_FailedWriteChangesNothing ==
    /\ [][OnTransactionSubmit(Debit.amount, Debit.eventDate, Debit.notes, FALSE)
           => /\ transactionDialogOpen'
              /\ transactionFormValues' = Debit
              /\ UNCHANGED <<editingTransaction, transactions,
                             transactionFetches, selectedCustomer,
                             dbTransactions>>]_vars
    /\ [][HandleDeleteTransaction(FALSE)
           => UNCHANGED <<deleteTransactionId, transactions,
                          transactionFetches, selectedCustomer,
                          dbTransactions>>]_vars

\* The update of an edited transaction has failed: the dialog is still open
\* on that transaction, the form holds the debit that was submitted, and the
\* stored and the displayed transaction are the credit they were.
C29_Witness ==
    /\ transactionDialogOpen
    /\ editingTransaction # 0
    /\ transactionFormValues = Debit
    /\ transactionFetches = {}
    /\ \E r \in dbTransactions : r.id = editingTransaction /\ r.amount = 100
    /\ \E r \in transactions : r.id = editingTransaction /\ r.amount = 100

-----------------------------------------------------------------------------
(* Properties of the loading flags *)

\* C30: every fetch of fetchMetrics, fetchCustomers and fetchTransactions
\* whose storage calls return, with data or with an error, leads to loading
\* = false; and loading is true only while such a fetch is under way (from
\* the mount whose effect calls it until its last storage call has returned).
C30_LoadingEndsFalse ==
    /\ (metricsPc \in {"mounted", "customers", "transactions"})
          ~> (metricsPc = "done" /\ ~metricsLoading)
    /\ (customerFetches > 0) ~> ~loading
    /\ (ttPc \in {"mounted", "fetching"}) ~> (ttPc = "done" /\ ~ttLoading)
    /\ [](metricsLoading => metricsPc \in {"mounted", "customers", "transactions"})
    /\ [](loading => customerFetches > 0)
    /\ [](ttLoading => ttPc \in {"mounted", "fetching"})

\* fetchMetrics has ended in its catch block, fetchTransactions has returned,
\* and fetchCustomers has returned after a customer was created: the three
\* loading flags are false.
C30_Witness ==
    /\ metricsPc = "done" /\ metricsToast /\ ~metricsLoading
    /\ ttPc = "done" /\ ~ttLoading
    /\ customerFetches = 0 /\ ~loading
    /\ dbCustomers # {} /\ customers = dbCustomers

====
